---------------------------- MODULE Spec2Model ----------------------------
(***************************************************************************)
(* Model of the DepthChart component                                       *)
(* (frontend/src/components/Charts/DepthChart/index.tsx).                  *)
(*                                                                         *)
(* Numbers.  Every x-quantity (premium, price, base_amount, center,        *)
(* xRange, rangeSteps) is a JavaScript number; the model stores it as an   *)
(* integer count of 1/Scale (tenths), which represents 0.5 and x/10        *)
(* exactly for the integer-valued inputs drawn here.  NaN and undefined    *)
(* are two distinguished values outside the numeric range, and every       *)
(* arithmetic helper propagates NaN as IEEE-754 does.  Volumes (y) are     *)
(* whole coins: satoshis_now is drawn as a multiple of 10^8.               *)
(***************************************************************************)
EXTENDS Integers, Sequences, FiniteSets, TLC

Scale == 10
NaN == -999999
Undefined == -888888

IsNum(a) == a # NaN /\ a # Undefined

\* Number(v): undefined converts to NaN.
ToNumber(a) == IF a = Undefined THEN NaN ELSE a
\* a ?? d
Coalesce(a, d) == IF a = Undefined THEN d ELSE a

Add(a, b) == IF ~IsNum(a) \/ ~IsNum(b) THEN NaN ELSE a + b
Sub(a, b) == IF ~IsNum(a) \/ ~IsNum(b) THEN NaN ELSE a - b
\* a < b, a <= b: false as soon as one side is NaN.
Lt(a, b) == IsNum(a) /\ IsNum(b) /\ a < b
Le(a, b) == IsNum(a) /\ IsNum(b) /\ a <= b

\* Integer quotient rounded toward zero.
QuotTowardZero(n, d) == IF n >= 0 THEN n \div d ELSE -((-n) \div d)

\* (a * b) / b on numbers whose product is exactly representable:
\* b = 0 gives 0/0 = NaN (a is finite).  b is an unscaled rate.
MulDiv(a, b) ==
    IF ~IsNum(a) \/ ~IsNum(b) THEN NaN
    ELSE IF b = 0 THEN NaN
    ELSE QuotTowardZero(a * b, b)

\* Math.floor(v) in place of ~~v.
DoubleTildeAsFloor(a) ==
    IF ~IsNum(a) THEN 0 ELSE (a \div Scale) * Scale

\* ~~v: ToInt32 of v, i.e. NaN -> 0 and the fraction dropped toward zero
\* (the values modelled stay far inside 32 bits).
DoubleTilde(a) ==
    IF ~IsNum(a) THEN 0 ELSE QuotTowardZero(a, Scale) * Scale

-----------------------------------------------------------------------------
(***************************************************************************)
(* Orders.  The orders the federation can publish are a fixed pool of      *)
(* objects; a book is a list of distinct pool ids.  base_amount is the     *)
(* only field the component writes; it lives in the variable heap so that  *)
(* the aliasing between federation.book and enrichedOrders is kept.        *)
(***************************************************************************)
SatPerBtc == 100000000
NoAlias == "null"

OrderPool ==
    <<  [id |-> 1, type |-> 0, premium |-> -2 * Scale, price |-> 100 * Scale,
         satoshis_now |-> 1 * SatPerBtc, coordinatorShortAlias |-> "a"],
        [id |-> 2, type |-> 1, premium |-> -1 * Scale, price |-> 140 * Scale,
         satoshis_now |-> 2 * SatPerBtc, coordinatorShortAlias |-> "a"],
        [id |-> 3, type |-> 1, premium |-> -10 * Scale, price |-> 100 * Scale,
         satoshis_now |-> 1 * SatPerBtc, coordinatorShortAlias |-> "b"],
        [id |-> 4, type |-> 0, premium |-> 12 * Scale, price |-> 120 * Scale,
         satoshis_now |-> Undefined, coordinatorShortAlias |-> NoAlias],
        [id |-> 5, type |-> 1, premium |-> -1 * Scale, price |-> 140 * Scale,
         satoshis_now |-> 3 * SatPerBtc, coordinatorShortAlias |-> "a"] >>

OrderIds == 1..Len(OrderPool)

\* The orders a federation snapshot is drawn from.
BookIds == {1, 2, 3}

\* federation.getCoordinator(alias).limits: currency code -> reference price.
\* Coordinator "b" publishes no limit for currency 2.
CoordinatorLimits(alias) ==
    IF alias = "a" THEN [c \in {1, 2} |-> IF c = 1 THEN 60000 ELSE 55000]
    ELSE [c \in {1} |-> 60000]

\* fav.currency: 0 stands for "unset".
FavCurrencies == {0, 1, 2}

\* federation.exchange.info?.last_day_nonkyc_btc_premium: undefined or 2.5.
ExchangePremiums == {Undefined, 25}

\* All lists of at most n distinct elements of S.
DistinctSeqs(S, n) ==
    UNION { { s \in [1..k -> S] : \A i, j \in 1..k : i # j => s[i] # s[j] }
            : k \in 0..n }

\* The order objects of a list of ids, with their current base_amount.
Deref(ids, hp) ==
    [i \in 1..Len(ids) |->
        [id |-> ids[i],
         type |-> OrderPool[ids[i]].type,
         premium |-> OrderPool[ids[i]].premium,
         price |-> OrderPool[ids[i]].price,
         satoshis_now |-> OrderPool[ids[i]].satoshis_now,
         coordinatorShortAlias |-> OrderPool[ids[i]].coordinatorShortAlias,
         base_amount |-> hp[ids[i]]]]

Ids(orders) == [i \in 1..Len(orders) |-> orders[i].id]

-----------------------------------------------------------------------------
(***************************************************************************)
(* The normalizer (the body of federation.book.map in the enrich effect).  *)
(***************************************************************************)
\* limits[currencyCode] ? limits[currencyCode].price : 0
LimitPrice(alias, currencyCode) ==
    LET limits == CoordinatorLimits(alias)
    IN  IF currencyCode \in DOMAIN limits THEN limits[currencyCode] ELSE 0

\* The value written to order.base_amount; orders without a coordinator
\* alias keep the base_amount they had.
EnrichedBaseAmount(order, currencyCode, old) ==
    IF order.coordinatorShortAlias # NoAlias
    THEN MulDiv(order.price, LimitPrice(order.coordinatorShortAlias, currencyCode))
    ELSE old

\* The heap after the map callback has run over every order of the book.
Enrich(book, currencyCode, hp) ==
    [o \in OrderIds |->
        IF \E i \in 1..Len(book) : book[i] = o
        THEN EnrichedBaseAmount(OrderPool[o], currencyCode, hp[o])
        ELSE hp[o]]

-----------------------------------------------------------------------------
(***************************************************************************)
(* Array.prototype.sort.  ECMAScript's SortCompare turns a NaN comparator  *)
(* result into +0 and the sort is stable.  The algorithm is the engine's;  *)
(* the model uses insertion from the right, which yields the one stable    *)
(* order whenever the comparator is a consistent order.                    *)
(***************************************************************************)
SortCompare(v) == IF ~IsNum(v) THEN 0 ELSE v

\* perm lists the positions of keys already placed; position n goes after
\* the last placed one that does not compare greater (keys[j] - keys[n]).
InsertPosition(perm, n, keys) ==
    LET le == { j \in 1..Len(perm) : SortCompare(Sub(keys[perm[j]], keys[n])) <= 0 }
        k  == IF le = {} THEN 0 ELSE CHOOSE j \in le : \A i \in le : i <= j
    IN  SubSeq(perm, 1, k) \o <<n>> \o SubSeq(perm, k + 1, Len(perm))

RECURSIVE SortPermutation(_, _)
SortPermutation(keys, n) ==
    IF n = 0 THEN <<>> ELSE InsertPosition(SortPermutation(keys, n - 1), n, keys)

\* s.sort((a, b) => key(a) - key(b)), keys[i] being key(s[i]).
ArraySort(s, keys) ==
    LET perm == SortPermutation(keys, Len(s))
    IN  [i \in 1..Len(s) |-> s[perm[i]]]

Reverse(s) == [i \in 1..Len(s) |-> s[Len(s) + 1 - i]]

\* s.filter(...), flags[i] being the callback's answer for s[i].
RECURSIVE FilterPrefix(_, _, _)
FilterPrefix(s, flags, n) ==
    IF n = 0 THEN <<>>
    ELSE IF flags[n] THEN Append(FilterPrefix(s, flags, n - 1), s[n])
    ELSE FilterPrefix(s, flags, n - 1)

Filter(s, flags) == FilterPrefix(s, flags, Len(s))

-----------------------------------------------------------------------------
(***************************************************************************)
(* Series builder: generateSerie, closeSerie, generateSeries.              *)
(***************************************************************************)
\* The sort keys of generateSeries' two comparators.
BaseAmountKeys(orders) == [i \in 1..Len(orders) |-> Coalesce(orders[i].base_amount, 0)]
PremiumKeys(orders) == [i \in 1..Len(orders) |-> orders[i].premium]

\* A sort that is not stable: equal keys come out in reverse input order.
SortedOrdersUnstable(orders, xt) ==
    IF xt = "base_amount"
    THEN ArraySort(Reverse(orders), BaseAmountKeys(Reverse(orders)))
    ELSE ArraySort(Reverse(orders), PremiumKeys(Reverse(orders)))

\* enrichedOrders.sort(...): the array after the in-place sort.
SortedOrders(orders, xt) ==
    IF xt = "base_amount" THEN ArraySort(orders, BaseAmountKeys(orders))
    ELSE ArraySort(orders, PremiumKeys(orders))

SortedBuyOrders(sorted) ==
    Reverse(Filter(sorted, [i \in 1..Len(sorted) |-> sorted[i].type = 0]))
SortedSellOrders(sorted) ==
    Filter(sorted, [i \in 1..Len(sorted) |-> sorted[i].type = 1])

OrderX(order, xt) == IF xt = "base_amount" THEN order.base_amount ELSE order.premium

\* (order.satoshis_now ?? 0) / 100000000
OrderVolume(order) == Coalesce(order.satoshis_now, 0) \div SatPerBtc

\* sumOrders -= ... in place of sumOrders += ...
RECURSIVE SumVolumesSubtracting(_, _)
SumVolumesSubtracting(orders, n) ==
    IF n = 0 THEN 0 ELSE SumVolumesSubtracting(orders, n - 1) - OrderVolume(orders[n])

RECURSIVE SumVolumes(_, _)
SumVolumes(orders, n) ==
    IF n = 0 THEN 0 ELSE SumVolumes(orders, n - 1) + OrderVolume(orders[n])

\* The two points pushed for the n-th order of the walk.
RiserPoint(orders, n, xt) ==
    [x |-> OrderX(orders[n], xt), y |-> SumVolumes(orders, n - 1), order |-> {}]
LandingPoint(orders, n, xt) ==
    [x |-> OrderX(orders[n], xt), y |-> SumVolumes(orders, n), order |-> {orders[n].id}]

RECURSIVE EmittedSerie(_, _, _)
EmittedSerie(orders, n, xt) ==
    IF n = 0 THEN <<>>
    ELSE EmittedSerie(orders, n - 1, xt)
            \o <<RiserPoint(orders, n, xt), LandingPoint(orders, n, xt)>>

InWindow(x, c, xr) ==
    Lt(Sub(c, xr), ToNumber(x)) /\ Lt(ToNumber(x), Add(c, xr))

\* The window filter applied to the orders before the walk instead of to
\* the emitted points.
generateSerieFilteringFirst(orders, xt, c, xr) ==
    IF c = Undefined THEN <<>>
    ELSE LET inside == Filter(orders, [i \in 1..Len(orders) |->
                                         InWindow(OrderX(orders[i], xt), c, xr)])
         IN  EmittedSerie(inside, Len(inside), xt)

generateSerie(orders, xt, c, xr) ==
    IF c = Undefined THEN <<>>
    ELSE LET serie == EmittedSerie(orders, Len(orders), xt)
         IN  Filter(serie, [i \in 1..Len(serie) |-> InWindow(serie[i].x, c, xr)])

\* The ending point placed at limitBottom instead of limitTop.
closeSerieEndingAtBottom(serie, limitBottom, limitTop) ==
    IF Len(serie) = 0 THEN <<>>
    ELSE LET extended ==
                 IF serie[1].y # 0
                 THEN <<[x |-> limitBottom, y |-> serie[1].y, order |-> {}]>> \o serie
                 ELSE serie
         IN  extended \o
                <<[x |-> limitBottom, y |-> extended[Len(extended)].y, order |-> {}]>>

closeSerie(serie, limitBottom, limitTop) ==
    IF Len(serie) = 0 THEN <<>>
    ELSE LET extended ==
                 IF serie[1].y # 0
                 THEN <<[x |-> limitBottom, y |-> serie[1].y, order |-> {}]>> \o serie
                 ELSE serie
         IN  extended \o
                <<[x |-> limitTop, y |-> extended[Len(extended)].y, order |-> {}]>>

MaxX(c, xr) == Add(Coalesce(c, 0), xr)
MinX(c, xr) == Sub(Coalesce(c, 0), xr)

\* What one call of generateSeries computes from the state it closes over:
\* the array as the in-place sort leaves it, the two filtered series and
\* the value handed to setSeries.
generateSeries(orders, xt, c, xr) ==
    LET sorted    == SortedOrders(orders, xt)
        buySerie  == generateSerie(SortedBuyOrders(sorted), xt, c, xr)
        sellSerie == generateSerie(SortedSellOrders(sorted), xt, c, xr)
    IN  [sorted |-> sorted,
         buySerie |-> buySerie,
         sellSerie |-> sellSerie,
         series |-> << [id |-> "buy",
                        data |-> closeSerie(buySerie, MaxX(c, xr), MinX(c, xr))],
                       [id |-> "sell",
                        data |-> closeSerie(sellSerie, MinX(c, xr), MaxX(c, xr))] >>]

-----------------------------------------------------------------------------
(***************************************************************************)
(* Center / window recalculation.                                          *)
(***************************************************************************)
\* utils matchMedian: the middle of the ascending copy, the mean of the two
\* middle values for an even length; an empty list has no middle (NaN).
matchMedian(arr) ==
    LET nums == ArraySort(arr, arr)
        mid  == Len(arr) \div 2
    IN  IF Len(arr) = 0 THEN NaN
        ELSE IF Len(arr) % 2 # 0 THEN nums[mid + 1]
        ELSE IF ~IsNum(nums[mid]) \/ ~IsNum(nums[mid + 1]) THEN NaN
        ELSE QuotTowardZero(nums[mid] + nums[mid + 1], 2)

\* -v
Negate(a) == IF ~IsNum(a) THEN NaN ELSE -a

BaseAmounts(orders) == [i \in 1..Len(orders) |-> Coalesce(orders[i].base_amount, 0)]
Premiums(orders) == [i \in 1..Len(orders) |-> Coalesce(orders[i].premium, 0)]

DefaultMaxValue == 1500
\* setXRange(8), setRangeSteps(0.5)
PremiumRange == 8 * Scale
PremiumRangeSteps == Scale \div 2

\* prices.sort((a, b) => b - a).slice(0, 1)[0] ?? 1500
MaxValue(prices) ==
    IF Len(prices) = 0 THEN DefaultMaxValue * Scale
    ELSE ArraySort(prices, [i \in 1..Len(prices) |-> Negate(prices[i])])[1]

\* maxRange / 10
DivTen(a) == IF ~IsNum(a) THEN NaN ELSE QuotTowardZero(a, 10)

\* The three values the effect hands to setCenter, setXRange, setRangeSteps.
Recenter(orders, xt, premium) ==
    IF xt = "base_amount"
    THEN LET prices      == BaseAmounts(orders)
             medianValue == DoubleTilde(matchMedian(prices))
             maxRange    == Sub(MaxValue(prices), medianValue)
         IN  [center |-> medianValue, xRange |-> maxRange, rangeSteps |-> DivTen(maxRange)]
    ELSE [center |-> IF premium = Undefined
                     THEN DoubleTilde(matchMedian(Premiums(orders)))
                     ELSE premium,
          xRange |-> PremiumRange,
          rangeSteps |-> PremiumRangeSteps]

-----------------------------------------------------------------------------
(***************************************************************************)
(* The component as a state machine.                                       *)
(*                                                                         *)
(* A state change schedules a render; the effects of a render run in       *)
(* declaration order, each when one of its dependencies differs from the   *)
(* value it had at the previous render (all of them at mount), closing     *)
(* over the state of that render; their setState calls are batched into    *)
(* the next render.  React flushes a pending render and its effects before *)
(* it dispatches the next event, so events arrive in settled states.       *)
(***************************************************************************)
MaxBook == 2
MaxUpdates == 1
MaxXRange == 100
MaxOrders == 3

VARIABLES
    fav,                  \* fav.currency (AppContext)
    book,                 \* federation.book, ids of order objects
    exchangePremium,      \* federation.exchange.info?.last_day_nonkyc_btc_premium
    federationUpdatedAt,  \* FederationContext
    heap,                 \* base_amount of every order object
    enrichedOrders,       \* useState: the array, as ids of order objects
    enrichedRef,          \* identity of the enrichedOrders array
    series,               \* useState
    rangeSteps,           \* useState
    xRange,               \* useState
    xType,                \* useState
    currencyCode,         \* useState
    center,               \* useState
    mounted,              \* the mount effects have run
    deps,                 \* dependency values of the last render
    calls                 \* results of direct generateSeries invocations

vars == << fav, book, exchangePremium, federationUpdatedAt, heap, enrichedOrders,
           enrichedRef, series, rangeSteps, xRange, xType, currencyCode, center,
           mounted, deps, calls >>

CurrentDeps ==
    [fav |-> fav, federationUpdatedAt |-> federationUpdatedAt,
     currencyCode |-> currencyCode, enrichedRef |-> enrichedRef,
     xRange |-> xRange, xType |-> xType]

Settled == mounted /\ deps = CurrentDeps

\* center === undefined || enrichedOrders.length < 1 ? <CircularProgress/> : chart
Loading == center = Undefined \/ Len(enrichedOrders) < 1
ChartShown == ~Loading

\* disabled={xRange <= 1}
ZoomInDisabled == Le(xRange, 1 * Scale)

Init ==
    /\ fav \in FavCurrencies
    /\ book \in DistinctSeqs(BookIds, MaxBook)
    /\ exchangePremium \in ExchangePremiums
    /\ federationUpdatedAt = 0
    /\ heap = [o \in OrderIds |-> Undefined]
    /\ enrichedOrders = <<>>
    /\ enrichedRef = 0
    /\ series = <<>>
    /\ rangeSteps = 8 * Scale
    /\ xRange = 8 * Scale
    /\ xType = "premium"
    /\ currencyCode = 1
    /\ center = Undefined
    /\ mounted = FALSE
    /\ deps = CurrentDeps
    /\ calls = <<>>

\* Which effects a render runs.
RunsCurrencyEffect == ~mounted \/ deps.fav # fav
RunsEnrichEffect ==
    \/ ~mounted
    \/ deps.federationUpdatedAt # federationUpdatedAt
    \/ deps.currencyCode # currencyCode
RunsSeriesEffect ==
    \/ ~mounted
    \/ deps.enrichedRef # enrichedRef
    \/ deps.xRange # xRange
RunsCenterEffect ==
    \/ ~mounted
    \/ deps.enrichedRef # enrichedRef
    \/ deps.xType # xType
    \/ deps.federationUpdatedAt # federationUpdatedAt
    \/ deps.currencyCode # currencyCode

\* One render and the effects it runs.
Render ==
    /\ ~Settled
    /\ LET enrich   == RunsEnrichEffect /\ Len(book) > 0
           heap2    == IF enrich THEN Enrich(book, currencyCode, heap) ELSE heap
           generate == RunsSeriesEffect /\ Len(enrichedOrders) > 0
           built    == generateSeries(Deref(enrichedOrders, heap2), xType, center, xRange)
           sorted   == IF generate THEN Ids(built.sorted) ELSE enrichedOrders
           window   == Recenter(Deref(sorted, heap2), xType, exchangePremium)
       IN  /\ currencyCode' = IF RunsCurrencyEffect
                              THEN (IF fav = 0 THEN 1 ELSE fav) ELSE currencyCode
           /\ heap' = heap2
           /\ enrichedOrders' = IF enrich THEN book ELSE sorted
           /\ enrichedRef' = IF enrich THEN 1 - enrichedRef ELSE enrichedRef
           /\ series' = IF generate THEN built.series ELSE series
           /\ center' = IF RunsCenterEffect THEN window.center ELSE center
           /\ xRange' = IF RunsCenterEffect THEN window.xRange ELSE xRange
           /\ rangeSteps' = IF RunsCenterEffect THEN window.rangeSteps ELSE rangeSteps
    /\ mounted' = TRUE
    /\ deps' = CurrentDeps
    /\ UNCHANGED << fav, book, exchangePremium, federationUpdatedAt, xType, calls >>

\* The federation publishes a new snapshot.
FederationUpdate ==
    /\ Settled
    /\ federationUpdatedAt < MaxUpdates
    /\ book' \in DistinctSeqs(BookIds, MaxBook)
    /\ exchangePremium' \in ExchangePremiums
    /\ federationUpdatedAt' = federationUpdatedAt + 1
    /\ UNCHANGED << fav, heap, enrichedOrders, enrichedRef, series, rangeSteps, xRange,
                    xType, currencyCode, center, mounted, deps, calls >>

\* The user picks another favourite currency.
SetFavCurrency ==
    /\ Settled
    /\ \E c \in FavCurrencies : c # fav /\ fav' = c
    /\ UNCHANGED << book, exchangePremium, federationUpdatedAt, heap, enrichedOrders,
                    enrichedRef, series, rangeSteps, xRange, xType, currencyCode,
                    center, mounted, deps, calls >>

\* Select onChange: setXType(e.target.value)
SelectXType ==
    /\ Settled /\ ChartShown
    /\ \E t \in {"premium", "base_amount"} : t # xType /\ xType' = t
    /\ UNCHANGED << fav, book, exchangePremium, federationUpdatedAt, heap,
                    enrichedOrders, enrichedRef, series, rangeSteps, xRange,
                    currencyCode, center, mounted, deps, calls >>

\* First IconButton: setXRange(xRange + rangeSteps)
ZoomOut ==
    /\ Settled /\ ChartShown
    /\ Le(Add(xRange, rangeSteps), MaxXRange)
    /\ xRange' = Add(xRange, rangeSteps)
    /\ UNCHANGED << fav, book, exchangePremium, federationUpdatedAt, heap,
                    enrichedOrders, enrichedRef, series, rangeSteps, xType,
                    currencyCode, center, mounted, deps, calls >>

\* Second IconButton: setXRange(xRange - rangeSteps), disabled={xRange <= 1}
ZoomIn ==
    /\ Settled /\ ChartShown
    /\ ~ZoomInDisabled
    /\ xRange' = Sub(xRange, rangeSteps)
    /\ UNCHANGED << fav, book, exchangePremium, federationUpdatedAt, heap,
                    enrichedOrders, enrichedRef, series, rangeSteps, xType,
                    currencyCode, center, mounted, deps, calls >>

Next ==
    \/ Render
    \/ FederationUpdate
    \/ SetFavCurrency
    \/ SelectXType
    \/ ZoomOut
    \/ ZoomIn

Spec == Init /\ [][Next]_vars

-----------------------------------------------------------------------------
(***************************************************************************)
(* The series builder on its own: generateSeries invoked twice in a row on *)
(* a component state drawn from bounded sets (any list of at most          *)
(* MaxOrders normalized orders in any order, either axis mode, a center    *)
(* and a half-width).                                                      *)
(***************************************************************************)
Centers == {Undefined, 0, 130 * Scale}
XRanges == {0, 8 * Scale, 25 * Scale}

BuilderInit ==
    /\ fav \in {1, 2}
    /\ currencyCode = fav
    /\ enrichedOrders \in DistinctSeqs(OrderIds, MaxOrders)
    /\ book = enrichedOrders
    /\ heap = Enrich(book, currencyCode, [o \in OrderIds |-> Undefined])
    /\ exchangePremium = Undefined
    /\ federationUpdatedAt = 0
    /\ enrichedRef = 0
    /\ series = <<>>
    /\ rangeSteps = PremiumRangeSteps
    /\ xRange \in XRanges
    /\ xType \in {"premium", "base_amount"}
    /\ center \in Centers
    /\ mounted = TRUE
    /\ deps = CurrentDeps
    /\ calls = <<>>

\* generateSeries(): sorts enrichedOrders in place and sets series.
GenerateSeriesCall ==
    /\ Len(calls) < 2
    /\ LET built == generateSeries(Deref(enrichedOrders, heap), xType, center, xRange)
       IN  /\ enrichedOrders' = Ids(built.sorted)
           /\ series' = built.series
           /\ calls' = Append(calls, [orders |-> enrichedOrders,
                                      sorted |-> Ids(built.sorted),
                                      buySerie |-> built.buySerie,
                                      sellSerie |-> built.sellSerie,
                                      series |-> built.series])
    /\ UNCHANGED << fav, book, exchangePremium, federationUpdatedAt, heap, enrichedRef,
                    rangeSteps, xRange, xType, currencyCode, center, mounted, deps >>

BuilderNext == GenerateSeriesCall

BuilderSpec == BuilderInit /\ [][BuilderNext]_vars

-----------------------------------------------------------------------------
(***************************************************************************)
(* Properties of the component, stated for the specification Spec.        *)
(***************************************************************************)

\* C1: once the effects have settled, the displayed series is the one
\* generateSeries builds from the current enrichedOrders, xType, center and
\* xRange; it is never left computed from a superseded center or axis mode.
C1_SettledSeriesIsCurrent ==
    (Settled /\ Len(enrichedOrders) > 0) =>
        series = generateSeries(Deref(enrichedOrders, heap), xType, center, xRange).series

\* C3: center is undefined unless at least one order has been normalized;
\* with no normalized order the series stay empty and the loading state is
\* shown.
C3_CenterUndefinedWithoutOrders ==
    Len(enrichedOrders) = 0 => (center = Undefined /\ series = <<>> /\ Loading)

\* C6: every normalized order with a known source coordinator has a
\* base_amount that is a defined number equal to its own price, whether or
\* not the coordinator's limits hold an entry for the reference currency.
C6_BaseAmountIsPrice ==
    \A i \in 1..Len(enrichedOrders) :
        LET order == OrderPool[enrichedOrders[i]]
        IN  order.coordinatorShortAlias # NoAlias =>
                (IsNum(heap[order.id]) /\ heap[order.id] = order.price)

\* C7: while the chart's controls are shown, the decreasing zoom control is
\* disabled whenever xRange <= 1, so that it can be used only from a state
\* with xRange > 1.
C7_DecreaseOnlyAboveOne ==
    ChartShown =>
        /\ (Le(xRange, 1 * Scale) => ZoomInDisabled)
        /\ (~ZoomInDisabled => Lt(1 * Scale, xRange))

\* A render that runs the center effect in premium mode.
PremiumRecenter == ~Settled /\ RunsCenterEffect /\ xType = "premium"

\* The median of the premiums the center effect closes over.
PremiumMedian == matchMedian(Premiums(Deref(enrichedOrders, heap)))

\* v with its fraction dropped toward zero, and toward minus infinity.
TowardZero(v) == IF v >= 0 THEN (v \div Scale) * Scale ELSE -(((-v) \div Scale) * Scale)
Floor(v) == (v \div Scale) * Scale

\* C8 (as amended): every recentering in premium mode sets xRange to 8 and
\* rangeSteps to 0.5, and center to the external premium when it is
\* available, otherwise to the median of the orders' premiums with its
\* fraction dropped toward zero (0 when there is no order).
C8_PremiumRecenterTowardZero ==
    [][PremiumRecenter =>
        /\ xRange' = 8 * Scale
        /\ rangeSteps' = Scale \div 2
        /\ center' = IF exchangePremium # Undefined THEN exchangePremium
                     ELSE IF Len(enrichedOrders) = 0 THEN 0
                     ELSE TowardZero(PremiumMedian)]_vars

\* C8 (as claimed): the same with the median rounded down (floor), also
\* when it is negative and fractional.
C8_PremiumRecenterFloor ==
    [][PremiumRecenter =>
        /\ xRange' = 8 * Scale
        /\ rangeSteps' = Scale \div 2
        /\ center' = IF exchangePremium # Undefined THEN exchangePremium
                     ELSE IF Len(enrichedOrders) = 0 THEN 0
                     ELSE Floor(PremiumMedian)]_vars

\* C8 witness: a settled premium-mode state recentered, without external
\* premium, on a negative fractional median (-1.5 gives -1).
C8_NegativeFractionalMedianSeen ==
    /\ Settled /\ xType = "premium" /\ exchangePremium = Undefined
    /\ IsNum(PremiumMedian) /\ PremiumMedian < 0 /\ PremiumMedian % Scale # 0
    /\ center = TowardZero(PremiumMedian)
    /\ xRange = 8 * Scale /\ rangeSteps = Scale \div 2

\* C10: xRange stays strictly positive (stated for the states in which
\* xRange is a number), so the window is never empty or inverted.
C10_XRangePositive == IsNum(xRange) => xRange > 0

-----------------------------------------------------------------------------
(***************************************************************************)
(* Properties of the series builder, stated for BuilderSpec.               *)
(***************************************************************************)
Last(s) == s[Len(s)]

\* The orders of one side in the order generateSerie walks them.
Walk(call, side) ==
    IF side = "buy" THEN SortedBuyOrders(Deref(call.sorted, heap))
    ELSE SortedSellOrders(Deref(call.sorted, heap))

Filtered(call, side) == IF side = "buy" THEN call.buySerie ELSE call.sellSerie
Closed(call, side) == IF side = "buy" THEN call.series[1].data ELSE call.series[2].data
LimitBottom(side) == IF side = "buy" THEN MaxX(center, xRange) ELSE MinX(center, xRange)
LimitTop(side) == IF side = "buy" THEN MinX(center, xRange) ELSE MaxX(center, xRange)

Sides == {"buy", "sell"}

RECURSIVE VolumeOf(_)
VolumeOf(ids) ==
    IF ids = {} THEN 0
    ELSE LET o == CHOOSE o \in ids : TRUE
         IN  Coalesce(OrderPool[o].satoshis_now, 0) \div SatPerBtc + VolumeOf(ids \ {o})

\* Positions of the walk whose x lies inside the window.
InsidePositions(walk) ==
    { i \in 1..Len(walk) : InWindow(OrderX(walk[i], xType), center, xRange) }

LastInside(walk) ==
    CHOOSE i \in InsidePositions(walk) : \A j \in InsidePositions(walk) : j <= i

\* C2 (as claimed): the last y of a side's filtered series is the volume of
\* exactly the orders of that side inside the window.
C2_LastYIsWindowVolume ==
    \A k \in 1..Len(calls) : \A side \in Sides :
        Len(Filtered(calls[k], side)) > 0 =>
            Last(Filtered(calls[k], side)).y =
                VolumeOf({ Walk(calls[k], side)[i].id :
                                i \in InsidePositions(Walk(calls[k], side)) })

\* C2 (as amended): the last y of a side's filtered series is the volume of
\* the orders of that side walked up to and including the last one inside
\* the window, those outside the window among them.
C2_LastYIsWalkedVolume ==
    \A k \in 1..Len(calls) : \A side \in Sides :
        LET walk == Walk(calls[k], side)
        IN  /\ (Len(Filtered(calls[k], side)) > 0) = (InsidePositions(walk) # {})
            /\ Len(Filtered(calls[k], side)) > 0 =>
                 Last(Filtered(calls[k], side)).y =
                     VolumeOf({ walk[i].id : i \in 1..LastInside(walk) })

\* C2 witness: a sell series whose last y exceeds the volume inside the
\* window, an order below the window having been walked first.
C2_OutsideOrderCounted ==
    \E k \in 1..Len(calls) :
        LET walk == Walk(calls[k], "sell")
        IN  /\ Len(calls[k].sellSerie) > 0
            /\ Last(calls[k].sellSerie).y >
                   VolumeOf({ walk[i].id : i \in InsidePositions(walk) })

\* C4 (as claimed): a non-empty closed series starts at limitBottom and
\* ends at limitTop; an empty one stays empty.
C4_ClosedSpansWindow ==
    \A k \in 1..Len(calls) : \A side \in Sides :
        IF Len(Filtered(calls[k], side)) = 0
        THEN Closed(calls[k], side) = <<>>
        ELSE /\ Closed(calls[k], side)[1].x = LimitBottom(side)
             /\ Last(Closed(calls[k], side)).x = LimitTop(side)

\* C4 (as amended): a non-empty closed series ends at limitTop; it starts
\* at limitBottom when the first filtered point has y # 0 and with that
\* first point itself when its y is 0; an empty one stays empty.
C4_ClosedEndsAtTop ==
    \A k \in 1..Len(calls) : \A side \in Sides :
        LET serie  == Filtered(calls[k], side)
            closed == Closed(calls[k], side)
        IN  IF Len(serie) = 0
            THEN closed = <<>>
            ELSE /\ Last(closed).x = LimitTop(side)
                 /\ serie[1].y # 0 =>
                        (closed[1].x = LimitBottom(side) /\ Len(closed) = Len(serie) + 2)
                 /\ serie[1].y = 0 =>
                        (closed[1] = serie[1] /\ Len(closed) = Len(serie) + 1)

\* C4 witness: a closed sell series that starts inside the window, at its
\* first order, because that order's riser has y = 0.
C4_StartsInsideWindow ==
    \E k \in 1..Len(calls) :
        /\ Len(calls[k].sellSerie) > 0
        /\ calls[k].sellSerie[1].y = 0
        /\ Closed(calls[k], "sell")[1].x # LimitBottom("sell")
        /\ Last(Closed(calls[k], "sell")).x = LimitTop("sell")

NonDecreasingY(serie) ==
    \A i \in 1..(Len(serie) - 1) : serie[i].y <= serie[i + 1].y

\* C5: the y-values of each side are non-decreasing in emission order,
\* after the window filter and after closing.
C5_CumulativeNonDecreasing ==
    \A k \in 1..Len(calls) : \A side \in Sides :
        LET walk == Walk(calls[k], side)
        IN  /\ NonDecreasingY(EmittedSerie(walk, Len(walk), xType))
            /\ NonDecreasingY(Filtered(calls[k], side))
            /\ NonDecreasingY(Closed(calls[k], side))

\* C5 witness: a closed series of a non-empty order list that rises.
C5_RisingSeriesBuilt ==
    \E k \in 1..Len(calls) : \E side \in Sides :
        /\ Len(calls[k].orders) > 0
        /\ Len(Closed(calls[k], side)) >= 4
        /\ Closed(calls[k], side)[1].y < Last(Closed(calls[k], side)).y

\* C9: a second generateSeries call on the state the first one left yields
\* the same buy and sell series.
C9_SecondCallSameSeries ==
    Len(calls) = 2 =>
        /\ calls[2].series = calls[1].series
        /\ calls[2].buySerie = calls[1].buySerie
        /\ calls[2].sellSerie = calls[1].sellSerie

\* C9 witness: two calls, the first of which reordered enrichedOrders in
\* place and prepended a starting point to a series.
C9_SortedAndUnshifted ==
    /\ Len(calls) = 2
    /\ calls[1].sorted # calls[1].orders
    /\ \E side \in Sides :
        Len(Closed(calls[2], side)) = Len(Filtered(calls[2], side)) + 2

=============================================================================
